---- MODULE Spec2Model ----
(***************************************************************************)
(* A model of digit (src/digit.py): the frontier crawler                   *)
(* crawl_with_frontier, the helpers it calls (normalize_url, same_scope,   *)
(* load_robots, slugify_path, write_output, hash_content), the sitemap     *)
(* path crawl_sitemap_first and the orchestrator main.                     *)
(*                                                                         *)
(* Strings that the code takes apart (URL paths, regex patterns) are       *)
(* sequences of one-character strings.  A URL is the record urlparse       *)
(* gives: [scheme, netloc, path].  The site is the environment: every      *)
(* client.get draws its response afresh, so any link graph (and a site     *)
(* that changes between two fetches) is covered.                           *)
(***************************************************************************)
EXTENDS Integers, Sequences, FiniteSets, TLC

(***************************************************************************)
(* Bounds of the model                                                     *)
(***************************************************************************)
\* most <a> elements on one page
MaxLinks == 2
\* largest --max-pages value tried
MaxPagesBound == 2
\* largest --depth value tried
MaxDepthBound == 1
\* time.time() gives a value in 0..MaxTime
MaxTime == 1
\* most seeds in one run of main
MaxSeeds == 2
\* most URLs the sitemaps of one seed list
MaxSitemap == 3
\* most calls of a function called on its own
MaxCalls == 3
\* most lines of a <pre> block
MaxCodeLines == 4

(***************************************************************************)
(* String helpers (Python str methods on character sequences)              *)
(***************************************************************************)
startswith(s, pre) ==
    /\ Len(pre) <= Len(s)
    /\ SubSeq(s, 1, Len(pre)) = pre

endswith(s, suf) ==
    /\ Len(suf) <= Len(s)
    /\ SubSeq(s, Len(s) - Len(suf) + 1, Len(s)) = suf

\* re.Pattern.search for a literal pattern: rx occurs somewhere in s
search(rx, s) ==
    \E i \in 1..(Len(s) + 1) :
        /\ i + Len(rx) - 1 <= Len(s)
        /\ SubSeq(s, i, i + Len(rx) - 1) = rx

RECURSIVE rstrip(_, _)
rstrip(s, ch) ==
    IF s # <<>> /\ s[Len(s)] = ch THEN rstrip(SubSeq(s, 1, Len(s) - 1), ch) ELSE s

RECURSIVE lstrip(_, _)
lstrip(s, ch) ==
    IF s # <<>> /\ s[1] = ch THEN lstrip(Tail(s), ch) ELSE s

strip(s, ch) == rstrip(lstrip(s, ch), ch)

\* str.lower on the host names of the model
lower(s) == IF s = "X" THEN "x" ELSE s

(***************************************************************************)
(* The URLs, hrefs and pages of the modelled site                          *)
(***************************************************************************)
Url(sch, host, p) == [scheme |-> sch, netloc |-> host, path |-> p]

P_site == <<"/">>
P_root   == <<"/", "d", "/">>
P_noslash == <<"/", "d">>
P_a      == <<"/", "d", "/", "a">>
P_index  == <<"/", "d", "/", "i", "n", "d", "e", "x", ".", "h", "t", "m", "l">>
P_out    == <<"/", "e">>

\* the seeds handed to the crawler: with and without the trailing slash
Seeds == { Url("https", "x", P_root), Url("https", "x", P_noslash) }

\* a.get("href"): the parts of the reference; scheme "None" is Python's None
\* (an <a> without the attribute)
Href(sch, host, p, fr) == [scheme |-> sch, netloc |-> host, path |-> p, frag |-> fr]

NoHref == Href("None", "", <<>>, "")

Hrefs ==
    { Href("", "", <<>>, ""),                     \* href=""
      Href("", "", <<>>, "top"),                  \* href="#top"
      Href("", "", <<"a">>, ""),                  \* href="a"
      Href("https", "X", P_index, "s"),           \* href="https://X/d/index.html#s"
      Href("https", "x", P_out, ""),              \* href="https://x/e"
      Href("https", "y", P_a, "") }               \* href="https://y/d/a"

RECURSIVE SeqsUpTo(_, _)
SeqsUpTo(S, n) ==
    IF n = 0 THEN { <<>> }
    ELSE LET shorter == SeqsUpTo(S, n - 1)
         IN  shorter \cup { Append(s, x) : s \in { t \in shorter : Len(t) = n - 1 }, x \in S }

\* an HTML body: its <title>, the text of its main content, its <a href>s
Titles == { "t" }
Texts == { "p" }
Bodies == [title : Titles, main : Texts, hrefs : SeqsUpTo(Hrefs, MaxLinks)]

\* client.get(url) raising, answering with a status other than 200, or with a
\* content type without "html"
FailKinds == { "exception", "status", "ctype" }

(***************************************************************************)
(* normalize_url, same_scope                                               *)
(***************************************************************************)
NoUrl == Url("None", "", <<>>)

\* the part of a path up to and including its last "/"
RECURSIVE DirOf(_)
DirOf(p) ==
    IF p = <<>> \/ p[Len(p)] = "/" THEN p ELSE DirOf(SubSeq(p, 1, Len(p) - 1))

\* urllib.parse.urljoin(base, href) followed by urldefrag: the reference
\* resolved against the page URL, its fragment dropped
urljoin(b, href) ==
    IF href.scheme # "" /\ href.scheme # b.scheme
    THEN Url(href.scheme, href.netloc, href.path)
    ELSE IF href.netloc # ""
    THEN Url(b.scheme, href.netloc, href.path)
    ELSE IF href.path = <<>>
    THEN Url(b.scheme, b.netloc, b.path)
    ELSE IF href.path[1] = "/"
    THEN Url(b.scheme, b.netloc, href.path)
    ELSE Url(b.scheme, b.netloc, DirOf(b.path) \o href.path)

normalize_url(b, href) ==
    IF href = NoHref \/ href = Href("", "", <<>>, "")
    THEN NoUrl
    ELSE LET abs_url == urljoin(b, href)
         IN  IF abs_url.scheme \notin { "http", "https" }
             THEN NoUrl
             ELSE Url(abs_url.scheme, lower(abs_url.netloc), abs_url.path)

\* the path of the candidate not compared
same_scope_any_path(seed, candidate) ==
    /\ seed.scheme = candidate.scheme
    /\ seed.netloc = candidate.netloc

same_scope(seed, candidate) ==
    /\ seed.scheme = candidate.scheme
    /\ seed.netloc = candidate.netloc
    /\ startswith(candidate.path, seed.path)

\* base of crawl_with_frontier: the seed with a path that ends with "/"
BaseOf(seed) ==
    Url(seed.scheme, seed.netloc,
        IF endswith(seed.path, <<"/">>) THEN seed.path ELSE seed.path \o <<"/">>)

(***************************************************************************)
(* load_robots and RobotFileParser.can_fetch                               *)
(*   state "unread":       rp.read() raised (swallowed by load_robots)     *)
(*   state "disallow_all": robots.txt answered 401 or 403                  *)
(*   state "allow_all":    robots.txt answered another 4xx                 *)
(*   state "parsed":       robots.txt read; disallow is the set of path    *)
(*                         prefixes it disallows for the agent             *)
(***************************************************************************)
Robots ==
    { [state |-> "unread", disallow |-> {}],
      [state |-> "disallow_all", disallow |-> {}],
      [state |-> "allow_all", disallow |-> {}],
      [state |-> "parsed", disallow |-> { P_a }] }

can_fetch(r, url) ==
    IF r.state = "disallow_all" THEN FALSE
    ELSE IF r.state = "allow_all" THEN TRUE
    ELSE IF r.state = "unread" THEN FALSE
    ELSE \A pre \in r.disallow : ~ startswith(url.path, pre)

(***************************************************************************)
(* include / exclude patterns: <<>> is None (no pattern configured)        *)
(***************************************************************************)
NoPattern == <<>>
Patterns == { NoPattern, <<"a">> }

\* the text of a URL that the patterns are searched in
UrlText(u) == <<u.scheme, ":", "/", "/", u.netloc>> \o u.path

\* a mutant of the policy checks: the exclude pattern is not looked at
PolicyIgnoresExclude(r, inc, exc, url) ==
    /\ can_fetch(r, url)
    /\ ~ (inc # NoPattern /\ ~ search(inc, UrlText(url)))

\* lines 606-611: the three skips before the fetch
PolicyAllows(r, inc, exc, url) ==
    /\ can_fetch(r, url)
    /\ ~ (inc # NoPattern /\ ~ search(inc, UrlText(url)))
    /\ ~ (exc # NoPattern /\ search(exc, UrlText(url)))

(***************************************************************************)
(* hash_content, extract_main_content, slugify_path, write_output          *)
(***************************************************************************)
\* SHA-1 of a content, taken as collision-free on the contents of the model
hash_content(content) == [sha1 |-> content]

\* the markdown, the metadata and the cleaned HTML of one body: both texts
\* are made from the main content node, the links of the page are not part
\* of them (navigation is stripped)
extract_main_content(html, page_url) ==
    [md |-> [kind |-> "markdown", main |-> html.main],
     meta |-> [title |-> html.title, url |-> page_url],
     html_cleaned |-> [kind |-> "html", main |-> html.main]]

\* the characters [a-zA-Z0-9/_-] among those of the model
SafeChars ==
    { "a", "b", "c", "d", "e", "g", "h", "i", "l", "m", "n", "o", "s", "t", "u", "x",
      "/", "_", "-" }

\* a mutant of the sanitizing: the path is taken as it is
sanitize_nothing(path) == path

\* re.sub(r"[^a-zA-Z0-9/_\-]", "-", path)
sanitize(path) == [i \in 1..Len(path) |-> IF path[i] \in SafeChars THEN path[i] ELSE "-"]

S_index == <<"i", "n", "d", "e", "x">>
S_html == <<".", "h", "t", "m", "l">>

Ext(fmt) ==
    CASE fmt = "md"   -> <<".", "m", "d">>
      [] fmt = "json" -> <<".", "j", "s", "o", "n">>
      [] fmt = "txt"  -> <<".", "t", "x", "t">>
      [] fmt = "html" -> S_html

\* a mutant of the path resolution: a trailing /index is never cut
SlugPathKeepsIndex(root_url, page_url) ==
    LET p0 == page_url.path
        p1 == IF endswith(p0, <<"/">>) THEN p0 \o S_index ELSE p0
        p2 == IF p1 = <<>> THEN S_index ELSE p1
    IN  IF endswith(p2, S_html) THEN SubSeq(p2, 1, Len(p2) - 5) ELSE p2

\* lines 493-518: the path before sanitizing
SlugPath(root_url, page_url) ==
    LET p0 == page_url.path
        p1 == IF endswith(p0, <<"/">>) THEN p0 \o S_index ELSE p0
        p2 == IF p1 = <<>> THEN S_index ELSE p1
        p3 == IF endswith(p2, S_html) THEN SubSeq(p2, 1, Len(p2) - 5) ELSE p2
        root_path == rstrip(root_url.path, "/")
        path_without_index == SubSeq(p3, 1, Len(p3) - 6)
    IN  IF endswith(p3, <<"/">> \o S_index)
        THEN IF \/ path_without_index = root_path
                \/ path_without_index = root_path \o <<"/">>
             THEN p3
             ELSE IF path_without_index = <<>> \/ path_without_index = <<"/">>
                  THEN S_index
                  ELSE path_without_index
        ELSE p3

\* the output path: the directory of the seed's host and the file below it
slugify_path(dir, root_url, page_url, lang_hint, fmt) ==
    [dir |-> dir, file |-> strip(sanitize(SlugPath(root_url, page_url)), "/") \o Ext(fmt)]

\* str.replace(":", "-") on the titles of the model
replace_colon(t) == IF t = "a:b" THEN "a-b" ELSE t

\* lines 530-555: the text that write_output puts in the file; t is time.time()
FinalContent(content, meta, fmt, html_cleaned, t) ==
    CASE fmt = "md" ->
            [form |-> "frontmatter", title |-> replace_colon(meta.title),
             url |-> meta.url, date_scraped |-> t, content |-> content]
      [] fmt = "json" ->
            [form |-> "json", title |-> meta.title,
             url |-> meta.url, date_scraped |-> t, content |-> content]
      [] fmt = "html" ->
            [form |-> "plain", title |-> "", url |-> NoUrl, date_scraped |-> 0,
             content |-> html_cleaned]
      [] OTHER ->
            [form |-> "plain", title |-> "", url |-> NoUrl, date_scraped |-> 0,
             content |-> content]

\* lines 557-564: diff mode finds the file unchanged and the write is skipped
DiffSkips(fs, out_path, final_content, df) ==
    /\ df
    /\ out_path \in DOMAIN fs
    /\ hash_content(fs[out_path]) = hash_content(final_content)

\* a mutant of write_output: the directory holds the written file alone
write_output_alone(fs, out_path, content, meta, fmt, html_cleaned, df, t) ==
    [q \in { out_path } |-> FinalContent(content, meta, fmt, html_cleaned, t)]

\* the files after write_output
write_output(fs, out_path, content, meta, fmt, html_cleaned, df, t) ==
    LET final_content == FinalContent(content, meta, fmt, html_cleaned, t)
    IN  IF DiffSkips(fs, out_path, final_content, df)
        THEN fs
        ELSE [q \in (DOMAIN fs) \cup { out_path } |->
                 IF q = out_path THEN final_content ELSE fs[q]]

(***************************************************************************)
(* State                                                                   *)
(***************************************************************************)
VARIABLES
    args,           \* the parsed command line (parse_args)
    urls,           \* main: the seeds
    idx,            \* main: the index in urls of the seed being handled
    total_written,  \* main: the sum of the counts of the seeds handled
    pc,             \* where the program is
    base,           \* crawl_with_frontier: the scope root
    rp,             \* crawl_with_frontier: the robots parser load_robots gave
    queue,          \* crawl_with_frontier: the frontier, entries <<url, depth>>
    seen,           \* crawl_with_frontier: the Visited Set
    saved_hashes,   \* crawl_with_frontier: the Content-Hash Set
    pages,          \* crawl_with_frontier: the written-page counter
    sm_urls,        \* crawl_sitemap_first: the URLs still to fetch
    count,          \* crawl_sitemap_first: the pages written
    files,          \* the output directory: path -> text of the file
    gets,           \* history: the URLs of the client.get calls of the session
    pops,           \* history: the URLs popped and not yet visited, in order
    depth_log,      \* history: per URL, the depth of its first pop and the least depth appended
    discards,       \* history: the URLs popped and discarded as already visited
    last,           \* history: how the last iteration of the session ended
    writes,         \* history: the body hashes of the write_output calls of the session
    fs_writes,      \* history: how many write_output calls of the session wrote the file
    slept,          \* history: ticks slept since the last client.get of the session returned
    ran,            \* history: per seed handled, what main ran for it
    fn_in,          \* a function called on its own: the arguments of the call
    fn_out          \* a function called on its own: what the call returned

vars == <<args, urls, idx, total_written, pc, base, rp, queue, seen, saved_hashes,
          pages, sm_urls, count, files, gets, pops, discards, last, writes, fs_writes, slept, ran,
          fn_in, fn_out, depth_log>>

\* no function is called on its own
NoCall == <<>>

mainVars == <<urls, idx, total_written, ran>>
sitemapVars == <<sm_urls, count>>

\* the clock is in ticks of 1/TicksPerSecond seconds
TicksPerSecond == 2

\* line 590: delay = max(0.0, 1.0 / rps), in ticks
Delay(rps) == IF TicksPerSecond \div rps > 0 THEN TicksPerSecond \div rps ELSE 0

\* the values time.time() can give
Times == 0..MaxTime

Formats == { "md", "json", "txt", "html" }

\* the command lines of the model
Args ==
    [max_pages : 0..MaxPagesBound, depth : 0..MaxDepthBound, rate : { 1, 2 },
     include : Patterns, exclude : Patterns, sitemap_only : BOOLEAN,
     format : Formats, diff : BOOLEAN]

NoFiles == [q \in {} |-> 0]

\* main, line 717: domain = parsed.netloc or "unknown"
DomainOf(seed) == IF seed.netloc = "" THEN "unknown" ELSE seed.netloc

\* the seed being handled
Seed == urls[idx]

(***************************************************************************)
(* crawl_with_frontier                                                     *)
(***************************************************************************)
\* the page counter not compared
LoopContinuesUncounted(q, n, mx) == q # <<>>

\* line 600: the loop condition
LoopContinues(q, n, mx) == q # <<>> /\ n < mx

\* the head read and left in the queue
popleft_peeks(q) == q

\* line 601: queue.popleft() leaves the rest of the queue
popleft(q) == Tail(q)

\* the visited set never consulted
AlreadySeenNever(url, s) == FALSE

\* line 602: url in seen
AlreadySeen(url, s) == url \in s

\* the visited set left as it was
MarkSeenForgets(s, url) == s

\* line 604: seen.add(url)
MarkSeen(s, url) == s \cup { url }

\* the hash set never consulted
IsDuplicateNever(h, hs) == FALSE

\* line 624: the body is one already written
IsDuplicate(h, hs) == h \in hs

\* the hash of a written body not kept
AddHashForgets(hs, h) == hs

\* line 630: saved_hashes.add(content_hash)
AddHash(hs, h) == hs \cup { h }

\* a mutant of the depth test: links are taken from every page
MayEnqueueAlways(limit, depth) == TRUE

\* line 638: links are taken from the page
MayEnqueue(limit, depth) == limit = 0 \/ depth < limit

\* lines 640-645: the entries appended for the hrefs of a page, in document order
RECURSIVE Enqueued(_, _, _, _)
Enqueued(hrefs, url, depth, root) ==
    IF hrefs = <<>> THEN <<>>
    ELSE LET nxt == normalize_url(url, Head(hrefs))
             rest == Enqueued(Tail(hrefs), url, depth, root)
         IN  IF nxt # NoUrl /\ same_scope(root, nxt)
             THEN << <<nxt, depth + 1>> >> \o rest
             ELSE rest

\* a mutant of the append: the entries are put at the left end of the queue
appendleft(q, entries) == entries \o q

\* line 645: queue.append for each of the entries in turn
append(q, entries) == q \o entries

\* the depth history of a session: deq maps a URL to the depth of the entry
\* it was first popped with, enq to the least depth it was appended with
NoDepths == [deq |-> [u \in {} |-> 0], enq |-> [u \in {} |-> 0]]

\* line 601: the entry <<url, depth>> is popped and the URL was not visited
Dequeued(log, url, depth) ==
    [log EXCEPT !.deq = [u \in (DOMAIN log.deq) \cup { url } |->
                            IF u = url THEN depth ELSE log.deq[u]]]

\* lines 592 and 645: the entries are appended to the queue
RECURSIVE Appended(_, _)
Appended(log, entries) ==
    IF entries = <<>> THEN log
    ELSE LET url == Head(entries)[1]
             depth == Head(entries)[2]
             least == IF url \in DOMAIN log.enq /\ log.enq[url] <= depth
                      THEN log.enq[url] ELSE depth
         IN  Appended([log EXCEPT !.enq = [u \in (DOMAIN log.enq) \cup { url } |->
                                              IF u = url THEN least ELSE log.enq[u]]],
                      Tail(entries))

\* lines 587-599: the state when the loop is entered
StartFrontier(seed, robots) ==
    /\ base' = BaseOf(seed)
    /\ rp' = robots
    /\ queue' = << <<BaseOf(seed), 0>> >>
    /\ seen' = {}
    /\ saved_hashes' = {}
    /\ pages' = 0
    /\ gets' = <<>>
    /\ pops' = <<>>
    /\ depth_log' = Appended(NoDepths, << <<BaseOf(seed), 0>> >>)
    /\ discards' = {}
    /\ last' = "none"
    /\ writes' = <<>>
    /\ fs_writes' = 0
    /\ slept' = 0

InLoop == pc = "loop" /\ LoopContinues(queue, pages, args.max_pages)

HeadUrl == Head(queue)[1]
HeadDepth == Head(queue)[2]

\* line 600: the loop condition fails and crawl_with_frontier returns pages
LoopExit ==
    /\ pc = "loop"
    /\ ~ LoopContinues(queue, pages, args.max_pages)
    /\ pc' = "returned"
    /\ UNCHANGED <<args, fn_in, fn_out, mainVars, base, rp, queue, seen, saved_hashes, pages,
                   sitemapVars, files, gets, pops, depth_log, discards, last, writes, fs_writes, slept>>

\* lines 601-603: the entry popped is already visited
DiscardSeen ==
    /\ InLoop
    /\ AlreadySeen(HeadUrl, seen)
    /\ queue' = popleft(queue)
    /\ discards' = discards \cup { HeadUrl }
    /\ last' = "discard"
    /\ UNCHANGED <<args, fn_in, fn_out, mainVars, pc, base, rp, seen, saved_hashes, pages,
                   sitemapVars, files, gets, pops, depth_log, writes, fs_writes, slept>>

\* lines 601-611: the entry popped is marked visited and rejected by robots,
\* include or exclude
PolicySkip ==
    /\ InLoop
    /\ ~ AlreadySeen(HeadUrl, seen)
    /\ ~ PolicyAllows(rp, args.include, args.exclude, HeadUrl)
    /\ queue' = popleft(queue)
    /\ pops' = Append(pops, HeadUrl)
    /\ depth_log' = Dequeued(depth_log, HeadUrl, HeadDepth)
    /\ seen' = MarkSeen(seen, HeadUrl)
    /\ last' = "policy"
    /\ UNCHANGED <<args, fn_in, fn_out, mainVars, pc, base, rp, saved_hashes, pages,
                   sitemapVars, files, gets, discards, writes, fs_writes, slept>>

\* lines 601-620: the fetch raises, or answers without status 200 or without
\* an html content type
FetchFail ==
    /\ InLoop
    /\ ~ AlreadySeen(HeadUrl, seen)
    /\ PolicyAllows(rp, args.include, args.exclude, HeadUrl)
    /\ \E kind \in FailKinds :
        /\ queue' = popleft(queue)
        /\ pops' = Append(pops, HeadUrl)
        /\ depth_log' = Dequeued(depth_log, HeadUrl, HeadDepth)
        /\ seen' = MarkSeen(seen, HeadUrl)
        /\ gets' = Append(gets, HeadUrl)
        /\ slept' = 0
    /\ last' = "fail"
    /\ UNCHANGED <<args, fn_in, fn_out, mainVars, pc, base, rp, saved_hashes, pages,
                   sitemapVars, files, discards, writes, fs_writes>>

\* lines 601-625: the body fetched has the hash of a body already written
DuplicateDrop ==
    /\ InLoop
    /\ ~ AlreadySeen(HeadUrl, seen)
    /\ PolicyAllows(rp, args.include, args.exclude, HeadUrl)
    /\ \E html \in Bodies :
        /\ IsDuplicate(hash_content(html), saved_hashes)
        /\ queue' = popleft(queue)
        /\ pops' = Append(pops, HeadUrl)
        /\ depth_log' = Dequeued(depth_log, HeadUrl, HeadDepth)
        /\ seen' = MarkSeen(seen, HeadUrl)
        /\ gets' = Append(gets, HeadUrl)
        /\ slept' = 0
    /\ last' = "duplicate"
    /\ UNCHANGED <<args, fn_in, fn_out, mainVars, pc, base, rp, saved_hashes, pages,
                   sitemapVars, files, discards, writes, fs_writes>>

\* lines 601-647: the page is written, counted, its links are appended and
\* the loop sleeps
AcceptPage ==
    /\ InLoop
    /\ ~ AlreadySeen(HeadUrl, seen)
    /\ PolicyAllows(rp, args.include, args.exclude, HeadUrl)
    /\ \E html \in Bodies, t \in Times :
        LET url == HeadUrl
            depth == HeadDepth
            content_hash == hash_content(html)
            doc == extract_main_content(html, url)
            out_path == slugify_path(DomainOf(Seed), base, url, "", args.format)
            final_content == FinalContent(doc.md, doc.meta, args.format, doc.html_cleaned, t)
        IN  /\ ~ IsDuplicate(content_hash, saved_hashes)
            /\ seen' = MarkSeen(seen, url)
            /\ gets' = Append(gets, url)
            /\ files' = write_output(files, out_path, doc.md, doc.meta, args.format,
                                      doc.html_cleaned, args.diff, t)
            /\ writes' = Append(writes, content_hash)
            /\ fs_writes' = IF DiffSkips(files, out_path, final_content, args.diff)
                             THEN fs_writes ELSE fs_writes + 1
            /\ saved_hashes' = AddHash(saved_hashes, content_hash)
            /\ pages' = pages + 1
            /\ queue' = IF MayEnqueue(args.depth, depth)
                         THEN append(popleft(queue), Enqueued(html.hrefs, url, depth, base))
                         ELSE popleft(queue)
            /\ pops' = Append(pops, url)
            /\ depth_log' = Appended(Dequeued(depth_log, url, depth),
                                      SubSeq(queue', Len(queue), Len(queue')))
            /\ slept' = Delay(args.rate)
    /\ last' = "accept"
    /\ UNCHANGED <<args, fn_in, fn_out, mainVars, pc, base, rp, sitemapVars, discards>>

\* one step of the loop of crawl_with_frontier
Frontier == LoopExit \/ DiscardSeen \/ PolicySkip \/ FetchFail \/ DuplicateDrop \/ AcceptPage

\* crawl_with_frontier called on one seed with any arguments
InitCrawl ==
    /\ args \in { a \in Args : ~ a.sitemap_only }
    /\ urls \in { <<s>> : s \in Seeds }
    /\ idx = 1
    /\ total_written = 0
    /\ ran = <<>>
    /\ pc = "loop"
    /\ base = BaseOf(urls[1])
    /\ rp \in Robots
    /\ queue = << <<BaseOf(urls[1]), 0>> >>
    /\ seen = {}
    /\ saved_hashes = {}
    /\ pages = 0
    /\ sm_urls = <<>>
    /\ count = 0
    /\ files = NoFiles
    /\ gets = <<>>
    /\ pops = <<>>
    /\ depth_log = Appended(NoDepths, << <<BaseOf(urls[1]), 0>> >>)
    /\ discards = {}
    /\ last = "none"
    /\ writes = <<>>
    /\ fs_writes = 0
    /\ slept = 0
    /\ fn_in = NoCall
    /\ fn_out = NoCall

SpecCrawl == InitCrawl /\ [][Frontier]_vars

\* the sessions whose termination is checked: format, diff and rate, which
\* the loop condition and the queue do not depend on, are fixed
InitLive ==
    /\ InitCrawl
    /\ args.format = "txt"
    /\ ~ args.diff
    /\ args.rate = 1

\* the loop is one thread and every client.get returns or times out: a step
\* of the loop that can be taken is taken
LiveCrawl == InitLive /\ [][Frontier]_vars /\ WF_vars(Frontier)

(***************************************************************************)
(* crawl_sitemap_first                                                     *)
(***************************************************************************)

\* line 668: the URLs of the list that are in the scope of the seed
RECURSIVE InScope(_, _)
InScope(seed, list) ==
    IF list = <<>> THEN <<>>
    ELSE IF same_scope(seed, Head(list))
         THEN <<Head(list)>> \o InScope(seed, Tail(list))
         ELSE InScope(seed, Tail(list))

(***************************************************************************)
(* iter_sitemap_urls                                                       *)
(* A site answers the GET of a sitemap location with a resource:           *)
(*   raises: client.get raises (network error, timeout)                    *)
(*   status, ctype: the status code and the content-type header            *)
(*   doc: the body as ET.fromstring reads it: "malformed" raises a         *)
(*        ParseError, otherwise tag is the tag of the root element         *)
(*        without its namespace and locs the texts of its <loc> elements   *)
(***************************************************************************)
S_sitemap_xml == <<"s", "i", "t", "e", "m", "a", "p", ".", "x", "m", "l">>

\* the locations sitemaps are fetched from: the two candidates of the seeds
\* and two child sitemaps
L_site == Url("https", "x", <<"/">> \o S_sitemap_xml)
L_dir == Url("https", "x", P_root \o S_sitemap_xml)
L_child1 == Url("https", "x", <<"/", "s", "1">>)
L_child2 == Url("https", "x", <<"/", "s", "2">>)
SitemapLocations == { L_site, L_dir, L_child1, L_child2 }

\* a <loc> element without text
EmptyLoc == NoUrl

Resource(raises, status, ctype, tag, locs) ==
    [raises |-> raises, status |-> status, ctype |-> ctype,
     doc |-> [tag |-> tag, locs |-> locs]]

\* the two lists of three page URLs that a urlset declares
ThreeUrls == << Url("https", "x", P_root), Url("https", "x", P_a), Url("https", "x", P_out) >>
ThreeMore == << Url("https", "x", P_out), Url("https", "x", P_root), Url("https", "x", P_a) >>

R_raises == Resource(TRUE, 0, "", "malformed", <<>>)
R_status == Resource(FALSE, 404, "application/xml", "urlset", ThreeUrls)
R_ctype == Resource(FALSE, 200, "text/plain", "urlset", ThreeUrls)
R_malformed == Resource(FALSE, 200, "application/xml", "malformed", <<>>)
R_short == Resource(FALSE, 200, "application/xml", "urlset", << Url("https", "x", P_root) >>)
R_three == Resource(FALSE, 200, "application/xml", "urlset", ThreeUrls)
R_three_more == Resource(FALSE, 200, "text/xml", "urlset", ThreeMore)
R_index == Resource(FALSE, 200, "application/xml", "sitemapindex", << L_child1, L_child2 >>)
R_index_gap ==
    Resource(FALSE, 200, "application/xml", "sitemapindex", << L_child1, EmptyLoc, L_child2 >>)

Resources ==
    { R_raises, R_status, R_ctype, R_malformed, R_short, R_three, R_three_more,
      R_index, R_index_gap }

\* the sites: what every sitemap location answers
Sites == [SitemapLocations -> Resources]

\* lines 338-340: "xml" in resp.headers.get("content-type", "")
HasXml(ctype) == ctype \in { "application/xml", "text/xml" }

\* what a part of the generator did: the URLs it yielded, and whether it
\* ended by raising
Yielded(locs) == [raised |-> FALSE, urls |-> locs]
Raised(locs) == [raised |-> TRUE, urls |-> locs]

\* a mutant of `except Exception: continue`: the exception is not caught
Uncaught(part) == part

\* lines 356-357 and 362-363: `except Exception: continue` keeps what was
\* yielded and goes on with the next resource
Caught(part) == Yielded(part.urls)

\* lines 353-355 and 359-361: the texts found by findall("{*}url/{*}loc")
UrlLocs(doc) == IF doc.tag = "urlset" THEN doc.locs ELSE <<>>

\* lines 350-355: the body of the try for one child sitemap
ChildSitemap(site, loc) ==
    LET r == site[loc]
    IN  IF r.raises THEN Raised(<<>>)
        ELSE IF r.status = 200
        THEN IF r.doc.tag = "malformed" THEN Raised(<<>>) ELSE Yielded(UrlLocs(r.doc))
        ELSE Yielded(<<>>)

\* lines 345-357: the loop over the <loc> elements of a sitemap index; an
\* exception that leaves the try of one child ends the loop
RECURSIVE SitemapIndex(_, _)
SitemapIndex(site, locs) ==
    IF locs = <<>> THEN Yielded(<<>>)
    ELSE LET child == IF Head(locs) = EmptyLoc
                      THEN Yielded(<<>>)
                      ELSE Caught(ChildSitemap(site, Head(locs)))
         IN  IF child.raised THEN child
             ELSE LET rest == SitemapIndex(site, Tail(locs))
                  IN  [raised |-> rest.raised, urls |-> child.urls \o rest.urls]

\* lines 337-361: the body of the try for one candidate location
Candidate(site, sm_url) ==
    LET r == site[sm_url]
    IN  IF r.raises THEN Raised(<<>>)
        ELSE IF r.status # 200 \/ ~ HasXml(r.ctype) THEN Yielded(<<>>)
        ELSE IF r.doc.tag = "malformed" THEN Raised(<<>>)
        ELSE IF r.doc.tag = "sitemapindex" THEN SitemapIndex(site, r.doc.locs)
        ELSE IF r.doc.tag = "urlset" THEN Yielded(UrlLocs(r.doc))
        ELSE Yielded(<<>>)

\* line 333: the two locations tried for the seed
Candidates(seed) ==
    << urljoin(seed, Href("", "", <<"/">> \o S_sitemap_xml, "")),
       urljoin(seed, Href("", "", S_sitemap_xml, "")) >>

\* lines 335-363: the loop over the candidates
RECURSIVE SitemapCandidates(_, _)
SitemapCandidates(site, cands) ==
    IF cands = <<>> THEN Yielded(<<>>)
    ELSE LET cand == Caught(Candidate(site, Head(cands)))
         IN  IF cand.raised THEN cand
             ELSE LET rest == SitemapCandidates(site, Tail(cands))
                  IN  [raised |-> rest.raised, urls |-> cand.urls \o rest.urls]

\* the URLs the generator yields, and whether it ends by raising
iter_sitemap_urls(seed, site) == SitemapCandidates(site, Candidates(seed))

\* the seeds iter_sitemap_urls is called with: those of main and the site root
SitemapSeeds == Seeds \cup { Url("https", "x", P_site) }

\* per seed, the lists list(iter_sitemap_urls(seed)) can be (line 662)
SitemapLists ==
    [seed \in SitemapSeeds |-> { iter_sitemap_urls(seed, site).urls : site \in Sites }]

\* main, line 728: the sitemap is tried for the seed
TriesSitemap(a) == a.sitemap_only /\ a.include = NoPattern /\ a.exclude = NoPattern

\* main, lines 728-731 and crawl_sitemap_first, lines 660-676: the sitemap
\* URLs are listed (all_urls is what iter_sitemap_urls yields on some site,
\* sitemaps that list more than MaxSitemap URLs left aside) and filtered; with
\* none left the function returns 0
SitemapStart ==
    /\ pc = "main"
    /\ idx <= Len(urls)
    /\ TriesSitemap(args)
    /\ \E all_urls \in SitemapLists[Seed] :
        /\ Len(all_urls) <= MaxSitemap
        /\ sm_urls' = InScope(Seed, all_urls)
        /\ pc' = IF InScope(Seed, all_urls) = <<>> THEN "sitemap_returned" ELSE "sitemap"
    /\ count' = 0
    /\ gets' = <<>>
    /\ pops' = <<>>
    /\ depth_log' = NoDepths
    /\ discards' = {}
    /\ last' = "none"
    /\ writes' = <<>>
    /\ fs_writes' = 0
    /\ slept' = 0
    /\ UNCHANGED <<args, fn_in, fn_out, mainVars, base, rp, queue, seen, saved_hashes, pages, files>>

\* lines 680-688: the fetch of the next sitemap URL fails
SitemapFetchFail ==
    /\ pc = "sitemap"
    /\ sm_urls # <<>>
    /\ \E kind \in FailKinds :
        /\ sm_urls' = Tail(sm_urls)
        /\ gets' = Append(gets, Head(sm_urls))
        /\ slept' = 0
    /\ UNCHANGED <<args, fn_in, fn_out, mainVars, pc, base, rp, queue, seen, saved_hashes, pages,
                   count, files, pops, depth_log, discards, last, writes, fs_writes>>

\* lines 680-699: the next sitemap URL is fetched, written and counted
SitemapAccept ==
    /\ pc = "sitemap"
    /\ sm_urls # <<>>
    /\ \E html \in Bodies, t \in Times :
        LET url == Head(sm_urls)
            doc == extract_main_content(html, url)
            out_path == slugify_path(DomainOf(Seed), Seed, url, "", args.format)
            final_content == FinalContent(doc.md, doc.meta, args.format, doc.html_cleaned, t)
        IN  /\ sm_urls' = Tail(sm_urls)
            /\ gets' = Append(gets, url)
            /\ files' = write_output(files, out_path, doc.md, doc.meta, args.format,
                                      doc.html_cleaned, args.diff, t)
            /\ fs_writes' = IF DiffSkips(files, out_path, final_content, args.diff)
                             THEN fs_writes ELSE fs_writes + 1
            /\ count' = count + 1
            /\ slept' = Delay(args.rate)
    /\ UNCHANGED <<args, fn_in, fn_out, mainVars, pc, base, rp, queue, seen, saved_hashes, pages, pops, depth_log,
                   discards, last, writes>>

\* line 700: the list is exhausted and crawl_sitemap_first returns count
SitemapReturn ==
    /\ pc = "sitemap"
    /\ sm_urls = <<>>
    /\ pc' = "sitemap_returned"
    /\ UNCHANGED <<args, fn_in, fn_out, mainVars, base, rp, queue, seen, saved_hashes, pages,
                   sitemapVars, files, gets, pops, depth_log, discards, last, writes, fs_writes, slept>>

Sitemap == SitemapStart \/ SitemapFetchFail \/ SitemapAccept \/ SitemapReturn

(***************************************************************************)
(* A write that fails                                                      *)
(***************************************************************************)
\* the file open(out_path, "w") left behind when f.write raised
Truncated ==
    [form |-> "partial", title |-> "", url |-> NoUrl, date_scraped |-> 0,
     content |-> [kind |-> "partial", main |-> ""]]

\* lines 529 and 566-567: mkdir or open raises and the directory is as it
\* was, or f.write raises and the file is there without its text
FilesAfterFailure(fs, out_path) ==
    { fs, [q \in (DOMAIN fs) \cup { out_path } |-> IF q = out_path THEN Truncated ELSE fs[q]] }

\* crawl_with_frontier, line 629: write_output raises; nothing catches the
\* exception in crawl_with_frontier (the call is outside the try of line 613)
\* nor in main (lines 757-769), and the program ends with the traceback
WriteFails ==
    /\ InLoop
    /\ ~ AlreadySeen(HeadUrl, seen)
    /\ PolicyAllows(rp, args.include, args.exclude, HeadUrl)
    /\ \E html \in Bodies, t \in Times :
        LET url == HeadUrl
            doc == extract_main_content(html, url)
            out_path == slugify_path(DomainOf(Seed), base, url, "", args.format)
            final_content == FinalContent(doc.md, doc.meta, args.format, doc.html_cleaned, t)
        IN  /\ ~ IsDuplicate(hash_content(html), saved_hashes)
            /\ ~ DiffSkips(files, out_path, final_content, args.diff)
            /\ files' \in FilesAfterFailure(files, out_path)
            /\ seen' = MarkSeen(seen, url)
            /\ gets' = Append(gets, url)
            /\ pops' = Append(pops, url)
            /\ depth_log' = Dequeued(depth_log, url, HeadDepth)
    /\ queue' = popleft(queue)
    /\ slept' = 0
    /\ last' = "write_error"
    /\ pc' = "crashed"
    /\ UNCHANGED <<args, fn_in, fn_out, mainVars, base, rp, saved_hashes, pages, sitemapVars,
                   discards, writes, fs_writes>>

\* crawl_sitemap_first, line 692: write_output raises; nothing catches the
\* exception in crawl_sitemap_first nor in main (lines 731-739)
SitemapWriteFails ==
    /\ pc = "sitemap"
    /\ sm_urls # <<>>
    /\ \E html \in Bodies, t \in Times :
        LET url == Head(sm_urls)
            doc == extract_main_content(html, url)
            out_path == slugify_path(DomainOf(Seed), Seed, url, "", args.format)
            final_content == FinalContent(doc.md, doc.meta, args.format, doc.html_cleaned, t)
        IN  /\ ~ DiffSkips(files, out_path, final_content, args.diff)
            /\ files' \in FilesAfterFailure(files, out_path)
            /\ gets' = Append(gets, url)
    /\ slept' = 0
    /\ last' = "write_error"
    /\ pc' = "crashed"
    /\ UNCHANGED <<args, fn_in, fn_out, mainVars, base, rp, queue, seen, saved_hashes, pages,
                   sitemapVars, pops, depth_log, discards, writes, fs_writes>>

\* the output directory refuses a write
DiskFailure == WriteFails \/ SitemapWriteFails

(***************************************************************************)
(* main                                                                    *)
(***************************************************************************)
\* what main did for a seed: ran[i] is for urls[i]
Ran(sm, frontier, n) == [sitemap |-> sm, frontier |-> frontier, written_count |-> n]

\* lines 740-742 and 770: the sitemap gave pages; they are counted and the
\* seed is done
MainSitemapUsed ==
    /\ pc = "sitemap_returned"
    /\ count > 0
    /\ total_written' = total_written + count
    /\ ran' = Append(ran, Ran(TRUE, FALSE, count))
    /\ idx' = idx + 1
    /\ pc' = "main"
    /\ UNCHANGED <<args, fn_in, fn_out, urls, base, rp, queue, seen, saved_hashes, pages,
                   sitemapVars, files, gets, pops, depth_log, discards, last, writes, fs_writes, slept>>

\* lines 743-748: the sitemap gave nothing; main goes on to the next seed
MainSitemapEmpty ==
    /\ pc = "sitemap_returned"
    /\ ~ (count > 0)
    /\ ran' = Append(ran, Ran(TRUE, FALSE, 0))
    /\ idx' = idx + 1
    /\ pc' = "main"
    /\ UNCHANGED <<args, fn_in, fn_out, urls, total_written, base, rp, queue, seen, saved_hashes, pages,
                   sitemapVars, files, gets, pops, depth_log, discards, last, writes, fs_writes, slept>>

\* lines 750-757: the sitemap was not tried; crawl_with_frontier is called
MainStartFrontier ==
    /\ pc = "main"
    /\ idx <= Len(urls)
    /\ ~ TriesSitemap(args)
    /\ \E robots \in Robots : StartFrontier(Seed, robots)
    /\ pc' = "loop"
    /\ UNCHANGED <<args, fn_in, fn_out, mainVars, sitemapVars, files>>

\* lines 757-770: crawl_with_frontier has returned; its count is added
MainFrontierDone ==
    /\ pc = "returned"
    /\ total_written' = total_written + pages
    /\ ran' = Append(ran, Ran(FALSE, TRUE, pages))
    /\ idx' = idx + 1
    /\ pc' = "main"
    /\ UNCHANGED <<args, fn_in, fn_out, urls, base, rp, queue, seen, saved_hashes, pages,
                   sitemapVars, files, gets, pops, depth_log, discards, last, writes, fs_writes, slept>>

\* line 715: the seeds are exhausted
MainExit ==
    /\ pc = "main"
    /\ idx > Len(urls)
    /\ pc' = "exit"
    /\ UNCHANGED <<args, fn_in, fn_out, mainVars, base, rp, queue, seen, saved_hashes, pages,
                   sitemapVars, files, gets, pops, depth_log, discards, last, writes, fs_writes, slept>>

Main == MainSitemapUsed \/ MainSitemapEmpty \/ MainStartFrontier \/ MainFrontierDone \/ MainExit

\* the command lines main is run with: those that differ in what main itself
\* reads (sitemap_only, include, max_pages)
MainArgs ==
    { a \in Args : /\ a.depth = 0 /\ a.rate = 1 /\ a.format = "txt" /\ a.diff
                   /\ a.exclude = NoPattern }

\* main before its first seed
InitMain ==
    /\ args \in MainArgs
    /\ urls \in SeqsUpTo(Seeds, MaxSeeds) \ { <<>> }
    /\ idx = 1
    /\ total_written = 0
    /\ ran = <<>>
    /\ pc = "main"
    /\ base = NoUrl
    /\ rp = [state |-> "unread", disallow |-> {}]
    /\ queue = <<>>
    /\ seen = {}
    /\ saved_hashes = {}
    /\ pages = 0
    /\ sm_urls = <<>>
    /\ count = 0
    /\ files = NoFiles
    /\ gets = <<>>
    /\ pops = <<>>
    /\ depth_log = NoDepths
    /\ discards = {}
    /\ last = "none"
    /\ writes = <<>>
    /\ fs_writes = 0
    /\ slept = 0
    /\ fn_in = NoCall
    /\ fn_out = NoCall

Next == Main \/ Sitemap \/ Frontier \/ DiskFailure

Spec == InitMain /\ [][Next]_vars

(***************************************************************************)
(* Functions called on their own                                           *)
(***************************************************************************)
\* the variables of main and of the two crawls
crawlVars == <<mainVars, base, rp, queue, seen, saved_hashes, pages, sitemapVars,
               gets, pops, depth_log, discards, last, slept>>

\* no crawl is running
NoCrawl ==
    /\ urls = <<>>
    /\ idx = 1
    /\ total_written = 0
    /\ ran = <<>>
    /\ base = NoUrl
    /\ rp = [state |-> "unread", disallow |-> {}]
    /\ queue = <<>>
    /\ seen = {}
    /\ saved_hashes = {}
    /\ pages = 0
    /\ sm_urls = <<>>
    /\ count = 0
    /\ gets = <<>>
    /\ pops = <<>>
    /\ depth_log = NoDepths
    /\ discards = {}
    /\ last = "none"
    /\ slept = 0

\* the command lines that differ in what write_output and slugify_path read
FormatArgs ==
    { a \in Args : /\ a.max_pages = 0 /\ a.depth = 0 /\ a.rate = 1 /\ ~ a.sitemap_only
                   /\ a.include = NoPattern /\ a.exclude = NoPattern }

\* the main contents of the pages written
WriteTexts == { "p", "q" }

\* the pages written: their URL, and through it their output path
WritePages == { Url("https", "x", P_root), Url("https", "x", P_a) }

\* lines 526-567: one call of write_output, made as the crawls make it (lines
\* 626-629): the texts and the metadata are those extracted from a body of
\* the page, the path is the one resolved for its URL, and the clock reads t.
\* The call is logged with whether it wrote the file.
WriteOutputCall ==
    /\ pc = "write_output"
    /\ Len(writes) < MaxCalls
    /\ \E url \in WritePages, main \in WriteTexts, t \in Times :
        LET doc == extract_main_content([title |-> "t", main |-> main, hrefs |-> <<>>], url)
            out_path == slugify_path("x", Url("https", "x", P_root), url, "", args.format)
            final_content == FinalContent(doc.md, doc.meta, args.format, doc.html_cleaned, t)
            wrote == ~ DiffSkips(files, out_path, final_content, args.diff)
            call == [out_path |-> out_path, content |-> doc.md, meta |-> doc.meta,
                     html_cleaned |-> doc.html_cleaned]
        IN  /\ files' = write_output(files, out_path, doc.md, doc.meta, args.format,
                                      doc.html_cleaned, args.diff, t)
            /\ fn_in' = [call |-> call, time |-> t]
            /\ fn_out' = wrote
            /\ writes' = Append(writes, [call |-> call, time |-> t, wrote |-> wrote])
            /\ fs_writes' = IF wrote THEN fs_writes + 1 ELSE fs_writes
    /\ UNCHANGED <<args, pc, crawlVars>>

\* an empty output directory before the first call
InitWrite ==
    /\ args \in FormatArgs
    /\ pc = "write_output"
    /\ files = NoFiles
    /\ writes = <<>>
    /\ fs_writes = 0
    /\ fn_in = NoCall
    /\ fn_out = NoCall
    /\ NoCrawl

SpecWrite == InitWrite /\ [][WriteOutputCall]_vars

\* the paths of the site https://x/docs/ that slugify_path is called with
P_docs == <<"/", "d", "o", "c", "s", "/">>
P_docs_noslash == <<"/", "d", "o", "c", "s">>
P_docs_index == P_docs \o S_index \o S_html
P_guide == P_docs \o <<"g", "u", "i", "d", "e">>
P_guide_slash == P_guide \o <<"/">>
P_guide_html == P_guide \o S_html
P_guide_index == P_guide_slash \o S_index \o S_html

\* paths with segments and characters that must not reach the file system
P_dotdot == P_docs \o <<".", ".", "/", ".", ".", "/", "e">>
P_dot == <<"/", ".", "/", "a", ".", "b">>
P_hidden == <<"/">> \o S_html
P_slashes == <<"/", "/", "d", "/", "/">>
P_unsafe == <<"/", "d", "/", "a", "_", "b", "-", " ", "%", "~", "/">>

\* the scope roots and the pages slugify_path is called with
SlugRoots == { Url("https", "x", p) : p \in { P_site, P_docs, P_docs_noslash } }
SlugPages ==
    { Url("https", "x", p) :
        p \in { <<>>, P_site, P_docs, P_docs_noslash, P_docs_index,
                P_guide, P_guide_slash, P_guide_html, P_guide_index,
                P_dotdot, P_dot, P_hidden, P_slashes, P_unsafe } }

\* lines 481-523: one call of slugify_path with the arguments drawn
SlugifyPathCall ==
    /\ pc = "slugify_path"
    /\ fn_out' = slugify_path(fn_in.base, fn_in.root_url, fn_in.page_url, "", fn_in.format)
    /\ pc' = "slugify_path_returned"
    /\ UNCHANGED <<args, fn_in, crawlVars, files, writes, fs_writes>>

\* the arguments of the call
InitSlug ==
    /\ args \in { a \in FormatArgs : a.format = "md" /\ ~ a.diff }
    /\ pc = "slugify_path"
    /\ fn_in \in [base : { "x" }, root_url : SlugRoots, page_url : SlugPages, format : Formats]
    /\ fn_out = NoCall
    /\ files = NoFiles
    /\ writes = <<>>
    /\ fs_writes = 0
    /\ NoCrawl

SpecSlug == InitSlug /\ [][SlugifyPathCall]_vars

\* lines 331-363: one call of list(iter_sitemap_urls(seed)) on the site drawn
IterSitemapUrlsCall ==
    /\ pc = "iter_sitemap_urls"
    /\ fn_out' = iter_sitemap_urls(fn_in.seed, fn_in.site)
    /\ pc' = "iter_sitemap_urls_returned"
    /\ UNCHANGED <<args, fn_in, crawlVars, files, writes, fs_writes>>

\* the seed and the site of the call
InitSitemap ==
    /\ args \in { a \in FormatArgs : a.format = "md" /\ ~ a.diff }
    /\ pc = "iter_sitemap_urls"
    /\ fn_in \in [seed : SitemapSeeds, site : Sites]
    /\ fn_out = NoCall
    /\ files = NoFiles
    /\ writes = <<>>
    /\ fs_writes = 0
    /\ NoCrawl

SpecSitemap == InitSitemap /\ [][IterSitemapUrlsCall]_vars

(***************************************************************************)
(* extract_main_content: the code blocks                                   *)
(* Texts are sequences of characters, NL among them. The text html2text    *)
(* makes of the main node is the text before the placeholder of the block, *)
(* the placeholder and the text after it.                                  *)
(***************************************************************************)
NL == "\n"
\* the backtick, written as a character that no text of the model has otherwise
Backtick == "^"
Fence == <<Backtick, Backtick, Backtick>>

\* \s, \d, [a-zA-Z0-9_+-] and the class of line 428 among the characters of
\* the model
Whitespace == { " ", NL }
Digits == { "1" }
LabelChars == { "a", "s", "h", "1", "_", "+", "-" }
GlyphChars == { " ", "|", Backtick, "~", "/", ":", "_", "-" }

\* the first position from i on whose character is not in S
RECURSIVE Span(_, _, _)
Span(s, i, S) == IF i > Len(s) \/ s[i] \notin S THEN i ELSE Span(s, i + 1, S)

\* line 424: re.fullmatch(r"\s*\d{1,3}\s*", line)
IsLineNumber(line) ==
    LET j == Span(line, 1, Whitespace)
        k == Span(line, j, Digits)
    IN  /\ k - j >= 1
        /\ k - j <= 3
        /\ Span(line, k, Whitespace) = Len(line) + 1

\* line 428: re.fullmatch of the tree-drawing class
IsGlyphs(line) == line # <<>> /\ \A i \in DOMAIN line : line[i] \in GlyphChars

\* lines 421-436: the lines kept of the lines of a code block
RECURSIVE cleaned_lines(_, _)
cleaned_lines(raw_lines, i) ==
    IF i > Len(raw_lines) THEN <<>>
    ELSE LET line == rstrip(raw_lines[i], " ")
         IN  IF IsLineNumber(line) THEN cleaned_lines(raw_lines, i + 1)
             ELSE IF IsGlyphs(line) /\ i + 1 <= Len(raw_lines)
             THEN << rstrip(strip(line, " ") \o <<" ">> \o lstrip(raw_lines[i + 1], " "), " ") >>
                  \o cleaned_lines(raw_lines, i + 2)
             ELSE << line >> \o cleaned_lines(raw_lines, i + 1)

\* "\n".join(lines)
RECURSIVE join(_)
join(lines) ==
    IF lines = <<>> THEN <<>>
    ELSE IF Len(lines) = 1 THEN lines[1]
    ELSE lines[1] \o <<NL>> \o join(Tail(lines))

\* line 437: the text of the code block
code_text(raw_lines) == strip(join(cleaned_lines(raw_lines, 1)), NL)

\* the block from its opening to its closing fence
FencedBlock(lang, raw_lines) ==
    Fence \o lang \o <<NL>> \o code_text(raw_lines) \o <<NL>> \o Fence

\* line 438: what the placeholder stands for
fenced(lang, raw_lines) == <<NL, NL>> \o FencedBlock(lang, raw_lines) \o <<NL, NL>>

\* the end of a match of \n([a-zA-Z0-9_+-]{2,})\n\n and a fence at i, 0
\* without one
LabelMatch(s, i) ==
    LET j == Span(s, i + 1, LabelChars)
    IN  IF /\ i <= Len(s)
           /\ s[i] = NL
           /\ j - (i + 1) >= 2
           /\ j + 4 <= Len(s)
           /\ SubSeq(s, j, j + 4) = <<NL, NL>> \o Fence
        THEN j + 5
        ELSE 0

\* line 460: the label line before a fence is moved behind the fence
RECURSIVE merge_labels(_, _)
merge_labels(s, i) ==
    IF i > Len(s) THEN <<>>
    ELSE LET e == LabelMatch(s, i)
         IN  IF e > 0
             THEN <<NL>> \o Fence \o SubSeq(s, i + 1, e - 6) \o <<NL>> \o merge_labels(s, e)
             ELSE <<s[i]>> \o merge_labels(s, i + 1)

\* the groups \s*\d+\s*\n from i on: n groups are matched so far, e is the end
\* of the match once there are three (0 before); a group ends at the last NL
\* of the whitespace behind its digits
RECURSIVE DigitGroups(_, _, _, _)
DigitGroups(s, i, n, e) ==
    LET j == Span(s, i, Whitespace)
        k == Span(s, j, Digits)
        m == Span(s, k, Whitespace)
        P == { q \in k..(m - 1) : s[q] = NL }
        nl == IF P = {} THEN 0 ELSE CHOOSE q \in P : \A r \in P : r <= q
    IN  IF k = j \/ nl = 0 THEN e
        ELSE DigitGroups(s, k, n + 1, IF n + 1 >= 3 THEN nl + 1 ELSE e)

\* the end of a match of (?:^|\n)(?:\s*\d+\s*\n){3,} at i (MULTILINE), 0
\* without one
DigitRunMatch(s, i) ==
    IF i = 1 \/ s[i - 1] = NL \/ s[i] = NL THEN DigitGroups(s, i, 0, 0) ELSE 0

\* lines 463-465: the runs of lines of digits are replaced by one NL
RECURSIVE remove_digit_runs(_, _)
remove_digit_runs(s, i) ==
    IF i > Len(s) THEN <<>>
    ELSE LET e == DigitRunMatch(s, i)
         IN  IF e > i
             THEN <<NL>> \o remove_digit_runs(s, e)
             ELSE <<s[i]>> \o remove_digit_runs(s, i + 1)

\* line 469: re.sub(r"\n{3,}", "\n\n", markdown)
RECURSIVE collapse_blank_lines(_, _)
collapse_blank_lines(s, i) ==
    IF i > Len(s) THEN <<>>
    ELSE IF s[i] = NL
    THEN LET j == Span(s, i, { NL })
         IN  (IF j - i >= 3 THEN <<NL, NL>> ELSE SubSeq(s, i, j - 1))
             \o collapse_blank_lines(s, j)
    ELSE <<s[i]>> \o collapse_blank_lines(s, i + 1)

\* lines 457-469: the placeholder between the two texts is replaced by the
\* block, then the three substitutions make the markdown returned
markdown_of(before, lang, raw_lines, after) ==
    LET restored == before \o fenced(lang, raw_lines) \o after
        merged == merge_labels(restored, 1)
        without_runs == remove_digit_runs(merged, 1)
    IN  collapse_blank_lines(without_runs, 1)

\* the lines a code block can have: blank, code, indented code, a line
\* number, a number of four digits, a tree-drawing glyph
CodeLines ==
    { <<>>, <<"a">>, <<" ", "a">>, <<"1", "1">>, <<"1", "1", "1", "1">>, <<"|">> }

\* lines 396-413: the language found in the class names
Langs == { <<>>, <<"s", "h">> }

\* the texts html2text makes of what is before and after the block: nothing,
\* a paragraph, and before the block also a line with a bare language name
TextsBefore == { <<>>, <<"a", NL, NL>>, <<"a", NL, NL, "s", "h">> }
TextsAfter == { <<>>, <<"a", NL>> }

\* lines 386-469: one call of extract_main_content on a main node with one
\* <pre> block
ExtractMainContentCall ==
    /\ pc = "extract_main_content"
    /\ fn_out' = [block |-> FencedBlock(fn_in.lang, fn_in.raw_lines),
                  markdown |-> markdown_of(fn_in.before, fn_in.lang, fn_in.raw_lines,
                                           fn_in.after)]
    /\ pc' = "extract_main_content_returned"
    /\ UNCHANGED <<args, fn_in, crawlVars, files, writes, fs_writes>>

\* the main node of the call
InitExtract ==
    /\ args \in { a \in FormatArgs : a.format = "md" /\ ~ a.diff }
    /\ pc = "extract_main_content"
    /\ fn_in \in [before : TextsBefore, lang : Langs,
                  raw_lines : SeqsUpTo(CodeLines, MaxCodeLines), after : TextsAfter]
    /\ fn_out = NoCall
    /\ files = NoFiles
    /\ writes = <<>>
    /\ fs_writes = 0
    /\ NoCrawl

SpecExtract == InitExtract /\ [][ExtractMainContentCall]_vars

(***************************************************************************)
(* Properties of one frontier session                                      *)
(***************************************************************************)
Range(f) == { f[i] : i \in DOMAIN f }

\* how often x is in the sequence f
Occurrences(f, x) == Cardinality({ i \in DOMAIN f : f[i] = x })

NoRepeat(f) == \A i, j \in DOMAIN f : f[i] = f[j] => i = j

QueueUrls == [i \in DOMAIN queue |-> queue[i][1]]

\* C1: in one frontier session client.get is called at most once for every
\* URL, however often the URL was appended to the queue.
C1_OneGetPerUrl == \A u \in Range(gets) : Occurrences(gets, u) <= 1

\* a URL that was fetched was popped again later, and fetches still go on
C1_Witness ==
    /\ Len(gets) >= 2
    /\ \E u \in Range(gets) : u \in discards

\* C2: no two write_output calls of a session are for bodies with the same
\* content hash, every counted page is one write_output call, and an
\* iteration without a write_output call (a dropped duplicate among them)
\* counts nothing, writes no file and appends no link.
C2_NoHashWrittenTwice ==
    /\ [](NoRepeat(writes) /\ (pc \in { "loop", "returned" } => pages = Len(writes)))
    /\ [][writes' = writes =>
            /\ pages' = pages
            /\ files' = files
            /\ saved_hashes' = saved_hashes
            /\ Len(queue') <= Len(queue)]_vars

\* a body already written came back from another URL and was dropped
C2_Witness ==
    /\ last = "duplicate"
    /\ Len(writes) = 1
    /\ Len(gets) = 2
    /\ gets[1] # gets[2]

\* C3 as stated: a URL is popped at most once and is never in the queue twice.
C3_PoppedOnce ==
    /\ NoRepeat(QueueUrls)
    /\ \A u \in Range(pops) \cup discards :
           Occurrences(pops, u) + (IF u \in discards THEN 1 ELSE 0) <= 1

\* C3: a URL passes the visited check of DEQUEUE at most once in a session;
\* every other time it is popped it is discarded, and the discard changes
\* nothing but the queue.
C3_VisitedOnce ==
    /\ [](NoRepeat(pops) /\ discards \subseteq Range(pops) /\ Range(pops) = seen)
    /\ [][discards' # discards \/ last' = "discard" =>
            UNCHANGED <<seen, saved_hashes, pages, files, gets, pops, writes>>]_vars

\* a URL was popped a second time and discarded, and is in the queue again
C3_Witness ==
    /\ last = "discard"
    /\ \E i \in DOMAIN queue : queue[i][1] \in discards

\* C5 as stated: the counter counts the write_output calls that wrote the
\* file, a write skipped by diff mode is not counted.
C5_CountsWrittenFiles == pc \in { "loop", "returned" } => pages = fs_writes

\* C6 as stated: a client.get of the session that is not the first comes
\* after a sleep of at least 1/rps since the one before it returned, and
\* an iteration without a fetch does not sleep.
C6_SleepBetweenGets ==
    [][/\ (Len(gets') > Len(gets) /\ Len(gets) > 0
            => slept >= Delay(args.rate) /\ Delay(args.rate) > 0)
       /\ (gets' = gets => slept' = slept)]_vars

\* the URL passes the include and exclude patterns of the command line
PassesPatterns(u) ==
    /\ (args.include # NoPattern => search(args.include, UrlText(u)))
    /\ (args.exclude # NoPattern => ~ search(args.exclude, UrlText(u)))

\* C7 as stated: when the read of robots.txt raised, every URL popped and
\* not yet visited that passes include and exclude is fetched.
C7_UnreadRobotsPermissive ==
    rp.state = "unread" =>
        \A u \in Range(pops) : PassesPatterns(u) => u \in Range(gets)

PrefixOf(pre, s) ==
    /\ Len(pre) <= Len(s)
    /\ \A i \in 1..Len(pre) : s[i] = pre[i]

\* u has the scheme and host of the scope root and a path below its path
InScopeOfRoot(u) ==
    /\ u.scheme = Seed.scheme
    /\ u.netloc = Seed.netloc
    /\ PrefixOf(Seed.path, u.path)
    /\ PrefixOf(base.path, u.path)

\* C8: every entry of the queue is the scope root at depth 0 or an in-scope
\* URL at a depth of 1 or more, and every URL popped or fetched is in scope.
C8_EntriesInScope ==
    /\ \A i \in DOMAIN queue :
           /\ InScopeOfRoot(queue[i][1])
           /\ queue[i][2] = 0 => queue[i][1] = base
    /\ \A u \in Range(pops) \cup Range(gets) \cup discards : InScopeOfRoot(u)

\* a page with a link out of the scope was accepted and its in-scope link
\* is in the queue
C8_Witness ==
    /\ \E h \in saved_hashes :
           \E k \in DOMAIN h.sha1.hrefs :
               /\ h.sha1.hrefs[k].path = P_out
               /\ Len(h.sha1.hrefs) = 2
    /\ \E i \in DOMAIN queue : queue[i][2] = 1 /\ queue[i][1] # base

\* C9: the page counter never exceeds max_pages, once it equals max_pages
\* nothing is popped, fetched, written or appended any more, and with
\* max_pages = 0 nothing is fetched.
C9_StopsAtMaxPages ==
    /\ [](pages <= args.max_pages /\ (args.max_pages = 0 => gets = <<>>))
    /\ [][pages = args.max_pages =>
            UNCHANGED <<queue, seen, saved_hashes, pages, files, gets, pops,
                        discards, writes>>]_vars

\* the session returned at max_pages with entries left in the queue
C9_Witness ==
    /\ pc = "returned"
    /\ args.max_pages > 0
    /\ pages = args.max_pages
    /\ queue # <<>>

\* C10: a frontier session returns.
C10_SessionReturns == <>(pc = "returned")

\* a session with unlimited depth returned after a link led back to a
\* visited page
C10_Witness ==
    /\ pc = "returned"
    /\ args.depth = 0
    /\ discards # {}
    /\ queue = <<>>

\* the robots policy of the session disallows the URL
RobotsDisallows(u) ==
    \/ rp.state = "disallow_all"
    \/ rp.state = "parsed" /\ \E pre \in rp.disallow : PrefixOf(pre, u.path)

\* the URL fails one of the three policy checks made before the fetch
FailsPolicy(u) == RobotsDisallows(u) \/ ~ PassesPatterns(u)

\* C11: in a frontier session no client.get is issued for a popped URL that
\* the robots policy disallows, that fails the include pattern or that
\* matches the exclude pattern; the URL is marked visited all the same, and
\* the iteration that skips it writes nothing, counts nothing and appends no
\* link.
C11_PolicySkipsBeforeGet ==
    /\ [](\A u \in Range(pops) : FailsPolicy(u) => u \in seen /\ u \notin Range(gets))
    /\ [][(pops' # pops /\ FailsPolicy(pops'[Len(pops')])) =>
            /\ UNCHANGED <<gets, files, writes, fs_writes, pages, saved_hashes>>
            /\ queue' = Tail(queue)
            /\ pops'[Len(pops')] \in seen']_vars

\* a page was fetched and written, and a link of it was popped and skipped
\* because robots.txt disallows it or a pattern rejects it
C11_Witness ==
    /\ last = "policy"
    /\ Len(gets) >= 1
    /\ pages >= 1
    /\ \E u \in Range(pops) : FailsPolicy(u) /\ u \in seen /\ u \notin Range(gets)

\* C17 as stated: the pages a session accepts are stored in files of their
\* own, so the session produced as many files as it counted pages.
C17_OwnFilePerPage ==
    pc \in { "loop", "returned" } => Cardinality(DOMAIN files) = pages

\* C18 as stated: a session issues at most max_pages client.get calls, the
\* failed fetches, the non-HTML answers and the duplicates among them.
C18_GetsWithinMaxPages ==
    pc \in { "loop", "returned" } => Len(gets) <= args.max_pages

\* C20: a fetch that raises, or answers without status 200 or without an
\* HTML content type, changes nothing of the session but the Visited Set,
\* which gains the URL: the counter, the Content-Hash Set and the files are
\* as before, the queue is as the pop left it, and the loop goes on.
C20_FailedFetchChangesNothing ==
    [][(gets' # gets /\ last' = "fail") =>
            /\ UNCHANGED <<pages, saved_hashes, files, writes, fs_writes>>
            /\ queue' = Tail(queue)
            /\ seen' = seen \cup { Head(queue)[1] }
            /\ gets' = Append(gets, Head(queue)[1])
            /\ pc' = "loop"]_vars

\* the fetch of a link failed after a page was written, with entries left
C20_Witness ==
    /\ last = "fail"
    /\ pages >= 1
    /\ queue # <<>>
    /\ gets[Len(gets)] \in seen

\* the hrefs of a body that lead to a URL in the scope of the session
LinksInScope(html, url) ==
    { i \in DOMAIN html.hrefs :
        LET nxt == normalize_url(url, html.hrefs[i])
        IN  nxt # NoUrl /\ InScopeOfRoot(nxt) }

\* the body of the page the step accepts (its hash is the last one logged)
AcceptedBody == writes'[Len(writes')].sha1

\* C21: with a depth limit D > 0 no entry of the queue has a depth above D,
\* no page is fetched at a depth above D, and a step appends entries only
\* when it accepts a page popped at a depth below D; with D = 0 every
\* accepted page has one entry appended for each of its links in scope, at
\* the depth of the page plus 1.
C21_DepthLimit ==
    /\ [](args.depth > 0 => \A i \in DOMAIN queue : queue[i][2] <= args.depth)
    /\ [][(args.depth > 0 /\ gets' # gets) => Head(queue)[2] <= args.depth]_vars
    /\ [][(args.depth > 0 /\ queue' # queue /\ Len(queue') >= Len(queue)) =>
            writes' # writes /\ Head(queue)[2] < args.depth]_vars
    /\ [][(writes' # writes /\ (args.depth = 0 \/ Head(queue)[2] < args.depth)) =>
            /\ Len(queue') = Len(queue) - 1
                              + Cardinality(LinksInScope(AcceptedBody, Head(queue)[1]))
            /\ \A i \in Len(queue)..Len(queue') : queue'[i][2] = Head(queue)[2] + 1]_vars

\* with depth limit 1 a page at depth 1 that links into the scope was
\* written and nothing was appended for it
C21_Witness ==
    /\ args.depth = 1
    /\ last = "accept"
    /\ Len(writes) = 2
    /\ \E i \in DOMAIN writes[2].sha1.hrefs :
           writes[2].sha1.hrefs[i] = Href("", "", <<"a">>, "")
    /\ queue = <<>>

\* C22: the queue is first in, first out and the crawl breadth-first: a step
\* that changes the queue removes its oldest entry and appends at the other
\* end, the entry popped next is never less deep than the one popped now,
\* the depths of the entries in the queue differ by at most 1, and every URL
\* was first popped at the least depth it was ever appended with.
C22_BreadthFirst ==
    /\ [][queue' # queue =>
            /\ Len(queue') >= Len(queue) - 1
            /\ SubSeq(queue', 1, Len(queue) - 1) = Tail(queue)]_vars
    /\ [][(queue' # queue /\ queue' # <<>>) => Head(queue)[2] <= Head(queue')[2]]_vars
    /\ [](\A i, j \in DOMAIN queue :
            /\ queue[i][2] - queue[j][2] <= 1
            /\ i <= j => queue[i][2] <= queue[j][2])
    /\ [](\A u \in DOMAIN depth_log.deq :
            /\ u \in DOMAIN depth_log.enq
            /\ depth_log.deq[u] = depth_log.enq[u])

\* a URL popped at depth 1 was appended again at depth 2, and entries of
\* depth 1 and of depth 2 are in the queue together
C22_Witness ==
    /\ \E i, j \in DOMAIN queue : queue[i][2] = 1 /\ queue[j][2] = 2
    /\ \E i \in DOMAIN queue :
        /\ queue[i][1] \in DOMAIN depth_log.deq
        /\ queue[i][2] = 2
        /\ depth_log.deq[queue[i][1]] = 1

(***************************************************************************)
(* Properties of main                                                      *)
(***************************************************************************)
\* C4 as stated: a seed whose sitemap attempt counted 0 pages is crawled by
\* the frontier crawler, and so is every seed when the sitemap is not asked
\* for.
C4_FallsBackToFrontier ==
    \A i \in DOMAIN ran :
        /\ (ran[i].sitemap /\ ran[i].written_count = 0 => ran[i].frontier)
        /\ (~ args.sitemap_only => ran[i].frontier)

\* C15 as stated: a write_output call that raises is fatal for its page
\* only: the crawl goes on with the next URL and main with the next seed.
C15_WriteFailureSkipsPage == last = "write_error" => pc \in { "loop", "sitemap" }

\* C16 as stated: crawl_sitemap_first fetches no URL more than once, however
\* often the sitemaps of the seed list it.
C16_SitemapFetchesOnce ==
    pc \in { "sitemap", "sitemap_returned" } => NoRepeat(gets)

(***************************************************************************)
(* Properties of write_output                                              *)
(***************************************************************************)
\* C12 as stated: in diff mode, of two write_output calls in a row with the
\* same path, content and metadata the second does not write the file,
\* whatever the format and whatever the clock reads at the two calls.
C12_SecondWriteSkipped ==
    args.diff =>
        \A i \in 1..(Len(writes) - 1) :
            writes[i].call = writes[i + 1].call => ~ writes[i + 1].wrote

\* C23: a call of write_output deletes no file, creates no file but the one
\* at the given path and leaves the text of every other file as it was; in
\* diff mode, when the file at the path exists and its hash is the hash of
\* the text to be written, the call does not write it either.
C23_WritesOneFile ==
    [][fn_in' # fn_in =>
        LET out_path == fn_in'.call.out_path
            final_content == FinalContent(fn_in'.call.content, fn_in'.call.meta, args.format,
                                          fn_in'.call.html_cleaned, fn_in'.time)
        IN  /\ DOMAIN files \subseteq DOMAIN files'
            /\ DOMAIN files' \subseteq (DOMAIN files) \cup { out_path }
            /\ \A q \in DOMAIN files : q # out_path => files'[q] = files[q]
            /\ (/\ args.diff
                /\ out_path \in DOMAIN files
                /\ hash_content(files[out_path]) = hash_content(final_content)) =>
                   /\ files' = files
                   /\ fn_out' = FALSE
                   /\ fs_writes' = fs_writes]_vars

\* in diff mode, with two files in the directory, the call that wrote the
\* first file was made again and wrote nothing, and the other file has the
\* text it was written with
C23_Witness ==
    /\ args.diff
    /\ Len(writes) = 3
    /\ Cardinality(DOMAIN files) = 2
    /\ writes[1].call.out_path # writes[2].call.out_path
    /\ writes[3].call = writes[1].call
    /\ writes[1].wrote /\ writes[2].wrote /\ ~ writes[3].wrote
    /\ files[writes[2].call.out_path].content.main = writes[2].call.content.main

(***************************************************************************)
(* Properties of slugify_path                                              *)
(***************************************************************************)
\* slugify_path returned for the root and the page with these paths
SlugCallOf(root_path, page_path) ==
    /\ pc = "slugify_path_returned"
    /\ fn_in.root_url.path = root_path
    /\ fn_in.page_url.path = page_path

\* the page is the scope root or below it
BelowRoot ==
    /\ fn_in.page_url.scheme = fn_in.root_url.scheme
    /\ fn_in.page_url.netloc = fn_in.root_url.netloc
    /\ PrefixOf(fn_in.root_url.path, fn_in.page_url.path)

\* C13 as stated: slugify_path resolves the page relative to the scope root:
\* with root https://x/docs/ the page https://x/docs/guide/index.html
\* resolves to guide and https://x/docs/index.html to index, and the path of
\* a root below the site root is no prefix of the resolved path.
C13_RelativeToRoot ==
    /\ SlugCallOf(P_docs, P_guide_index) =>
           fn_out.file = <<"g", "u", "i", "d", "e">> \o Ext(fn_in.format)
    /\ SlugCallOf(P_docs, P_docs_index) => fn_out.file = S_index \o Ext(fn_in.format)
    /\ (pc = "slugify_path_returned" /\ BelowRoot /\ fn_in.root_url.path # P_site) =>
           ~ PrefixOf(<<"d", "o", "c", "s">>, fn_out.file)

\* C13: slugify_path resolves the full path of the page URL, the path of the
\* scope root included: with root https://x/docs/ the page
\* https://x/docs/guide/index.html resolves to docs/guide and
\* https://x/docs/index.html to docs/index, and for every page at or below
\* the root the resolved path starts with the path of the root.
C13_KeepsFullPath ==
    /\ SlugCallOf(P_docs, P_guide_index) =>
           fn_out.file = <<"d", "o", "c", "s", "/", "g", "u", "i", "d", "e">> \o Ext(fn_in.format)
    /\ SlugCallOf(P_docs, P_docs_index) =>
           fn_out.file = <<"d", "o", "c", "s", "/">> \o S_index \o Ext(fn_in.format)
    /\ (pc = "slugify_path_returned" /\ BelowRoot /\ fn_in.root_url.path # P_site) =>
           PrefixOf(<<"d", "o", "c", "s">>, fn_out.file)

\* the index page of a folder below the root https://x/docs/ was resolved
C13_Witness ==
    /\ SlugCallOf(P_docs, P_guide_index)
    /\ fn_in.format = "json"
    /\ fn_out.file = <<"d", "o", "c", "s", "/", "g", "u", "i", "d", "e", ".", "j", "s", "o", "n">>

\* the characters [A-Za-z0-9/_-]
PathChars ==
    { "a", "b", "c", "d", "e", "f", "g", "h", "i", "j", "k", "l", "m", "n", "o", "p", "q",
      "r", "s", "t", "u", "v", "w", "x", "y", "z",
      "A", "B", "C", "D", "E", "F", "G", "H", "I", "J", "K", "L", "M", "N", "O", "P", "Q",
      "R", "S", "T", "U", "V", "W", "X", "Y", "Z",
      "0", "1", "2", "3", "4", "5", "6", "7", "8", "9", "/", "_", "-" }

\* the path returned, without the extension of the format
Stem == SubSeq(fn_out.file, 1, Len(fn_out.file) - Len(Ext(fn_in.format)))

\* C24: the path slugify_path returns below the output base is made of
\* characters of [A-Za-z0-9/_-] followed by the extension of the format and
\* neither starts nor ends with a slash before the extension; having no dot
\* before the extension it has no "." or ".." segment, and the file is
\* inside the output base.
C24_PathStaysInBase ==
    pc = "slugify_path_returned" =>
        /\ fn_out.dir = fn_in.base
        /\ Len(fn_out.file) >= Len(Ext(fn_in.format))
        /\ SubSeq(fn_out.file, Len(Stem) + 1, Len(fn_out.file)) = Ext(fn_in.format)
        /\ \A i \in DOMAIN Stem : Stem[i] \in PathChars
        /\ Stem # <<>> => Stem[1] # "/" /\ Stem[Len(Stem)] # "/"

\* a page path with ".." segments was resolved to a path without them
C24_Witness ==
    /\ pc = "slugify_path_returned"
    /\ fn_in.page_url.path = P_dotdot
    /\ fn_in.format = "md"
    /\ fn_out.file = <<"d", "o", "c", "s", "/", "-", "-", "/", "-", "-", "/", "e", ".", "m", "d">>

(***************************************************************************)
(* Properties of iter_sitemap_urls                                         *)
(***************************************************************************)
\* the sitemap of the seed is a sitemap index of two child sitemaps that
\* list three URLs each: one location tried for the seed answers with the
\* index and the other one, if there is another, answers 404
IndexOfTwoChildren ==
    /\ fn_in.site[L_child1] \in { R_three, R_three_more }
    /\ fn_in.site[L_child2] \in { R_three, R_three_more }
    /\ \E c \in Range(Candidates(fn_in.seed)) :
        /\ fn_in.site[c] = R_index
        /\ \A o \in Range(Candidates(fn_in.seed)) \ { c } : fn_in.site[o] = R_status

\* C14 as stated: for every seed, the site root among them, whose sitemap is
\* an index of two child sitemaps with three URLs each, iter_sitemap_urls
\* yields those six URLs in declared order, each once per declaration.
C14_YieldsSixInOrder ==
    (pc = "iter_sitemap_urls_returned" /\ IndexOfTwoChildren) =>
        fn_out.urls = fn_in.site[L_child1].doc.locs \o fn_in.site[L_child2].doc.locs

\* the resource is of no use: the GET raised, answered another status than
\* 200 or a body that is no XML; a content type without "xml" counts for the
\* locations tried for the seed, and for a child sitemap if strict is set
Unusable(r, child, strict) ==
    \/ r.raises
    \/ r.status # 200
    \/ r.doc.tag = "malformed"
    \/ ~ HasXml(r.ctype) /\ (~ child \/ strict)

\* what the child sitemaps at locs declare, the unusable ones skipped
RECURSIVE DeclaredByChildren(_, _, _)
DeclaredByChildren(site, locs, strict) ==
    IF locs = <<>> THEN <<>>
    ELSE (IF Head(locs) = EmptyLoc \/ Unusable(site[Head(locs)], TRUE, strict)
               \/ site[Head(locs)].doc.tag # "urlset"
          THEN <<>>
          ELSE site[Head(locs)].doc.locs)
         \o DeclaredByChildren(site, Tail(locs), strict)

\* what the sitemap at a location tried for the seed declares
DeclaredBy(site, loc, strict) ==
    IF Unusable(site[loc], FALSE, strict) THEN <<>>
    ELSE IF site[loc].doc.tag = "urlset" THEN site[loc].doc.locs
    ELSE DeclaredByChildren(site, site[loc].doc.locs, strict)

\* the call returned without raising, and it yielded what the usable
\* resources declare, location by location
YieldsDeclared(strict) ==
    pc = "iter_sitemap_urls_returned" =>
        /\ ~ fn_out.raised
        /\ fn_out.urls = DeclaredBy(fn_in.site, Candidates(fn_in.seed)[1], strict)
                           \o DeclaredBy(fn_in.site, Candidates(fn_in.seed)[2], strict)

\* C19 as stated: a sitemap resource that fails (exception, status other
\* than 200, content type without xml, malformed XML), a child sitemap too,
\* never makes iter_sitemap_urls raise: it contributes no URL, the other
\* candidates and children are still processed, and nothing is yielded when
\* no resource is usable.
C19_FailuresContributeNothing == YieldsDeclared(TRUE)

\* C19: the same, where the content type is looked at for the two locations
\* tried for the seed only: a child sitemap that answers 200 with a urlset
\* contributes its URLs whatever its content type.
C19_FailuresAreSkipped == YieldsDeclared(FALSE)

\* the first location was malformed, the second an index whose first child
\* could not be fetched and whose second child was read
C19_Witness ==
    /\ pc = "iter_sitemap_urls_returned"
    /\ fn_in.seed = Url("https", "x", P_root)
    /\ fn_in.site[L_site] = R_malformed
    /\ fn_in.site[L_dir] = R_index
    /\ fn_in.site[L_child1] = R_raises
    /\ fn_in.site[L_child2] = R_three_more
    /\ fn_out.urls = ThreeMore

(***************************************************************************)
(* Properties of extract_main_content                                      *)
(***************************************************************************)
\* C25 as stated: the fenced block built from a <pre> block is in the
\* markdown returned, character for character from its opening to its
\* closing fence.
C25_FencedBlockVerbatim ==
    pc = "extract_main_content_returned" => search(fn_out.block, fn_out.markdown)

====
